---- MODULE Spec2Model ----
(***************************************************************************)
(* A model of the strands solver (src/src/main.rs): grid adjacency, the    *)
(* candidate finder, the crossing test and the backtracking coverage       *)
(* solver.  Cells are numbered 0 .. w*h-1 as in the source; TLA+ sequences *)
(* are 1-based, so letters[i + 1] is the source's letters[i].  A string is *)
(* a sequence of characters and a character is a small natural number.     *)
(* A bit mask (usize) is a natural number; the boards modelled have far    *)
(* fewer than 64 cells, so no shift or OR overflows.                       *)
(***************************************************************************)
EXTENDS Integers, Sequences, FiniteSets, TLC

VARIABLES
    board,              \* Board { letters, w, h }
    pc,                 \* position of the program: which call is pending or done
    nbr_i,              \* get_neighbors: the argument i
    neighbors,          \* get_neighbors: the returned Vec
    start_point,        \* find_valid_words_from_start: the argument start_point
    words,              \* the word list (valid_words of main, words of the finder)
    result,             \* find_valid_words_from_start: the returned Vec
    all_words_that_fit, \* main: the finder's output per start cell, solve's input
    max_len,            \* solve: the argument max_len (max_words of main)
    condensed_words,    \* solve: the masks of the flattened candidates
    flattened_words_that_fit, \* solve: the words of the flattened candidates
    stack,              \* the active calls of inner_solve, outermost first
    selected_blocks,    \* solve: the accumulator handed down the recursion
    picked,             \* history: position in the flattened list of each selected block
    entered,            \* history: selected_blocks as each active call of inner_solve got it
    inds,               \* what the outermost inner_solve returned
    solution,           \* what solve returned, or that it panicked
    call                \* a call of one function on its own: arguments and outcome

vars == <<board, pc, nbr_i, neighbors, start_point, words, result,
          all_words_that_fit, max_len, condensed_words,
          flattened_words_that_fit, stack, selected_blocks, picked, entered,
          inds, solution, call>>

(***************************************************************************)
(* Bounds of the model.                                                    *)
(***************************************************************************)
NbrMaxW == 4
NbrMaxH == 4
FindMaxWords == 3
FindMaxWordLen == 3

SolveMaxDict == 4
SolveMaxWords == 3

CrossMaxW == 3
CrossMaxIndex == 5
CrossMaxLen == 3

LibMaxW == 3
LibMaxH == 2

\* The boards solve is run on, each with the length of its longest words.
SolveCases ==
    {[w |-> 2, h |-> 2, longest |-> 2],
     [w |-> 3, h |-> 2, longest |-> 2],
     [w |-> 4, h |-> 1, longest |-> 4]}

FindDims == {<<1, 3>>, <<2, 2>>, <<3, 2>>}

Alphabet == {0, 1}

(***************************************************************************)
(* Small helpers on sequences.                                             *)
(***************************************************************************)
Range(s) == {s[k] : k \in DOMAIN s}

Contains(s, x) == \E k \in DOMAIN s : s[k] = x

NoValue == [none |-> TRUE]

(***************************************************************************)
(* Variants of get_neighbors with one edge test lost: west without the     *)
(* column-0 test (wraps to the previous row), and southeast without the    *)
(* last-column test (wraps two rows down).                                 *)
(***************************************************************************)
get_neighbors_west_wraps(b, i) ==
    LET size == b.w * b.h
        Push(c, x) == IF c THEN <<x>> ELSE <<>>
    IN  Push(i >= b.w, i - b.w)
        \o Push(i >= 1, i - 1)
        \o Push((i + 1) % b.w # 0, i + 1)
        \o Push(i + b.w < size, i + b.w)
        \o Push(i >= b.w + 1 /\ i % b.w # 0, i - b.w - 1)
        \o Push(i + 1 >= b.w /\ (i + 1) % b.w # 0, i + 1 - b.w)
        \o Push(i + b.w - 1 < size /\ i % b.w # 0, i + b.w - 1)
        \o Push(i + b.w + 1 < size /\ (i + 1) % b.w # 0, i + b.w + 1)

get_neighbors_southeast_wraps(b, i) ==
    LET size == b.w * b.h
        Push(c, x) == IF c THEN <<x>> ELSE <<>>
    IN  Push(i >= b.w, i - b.w)
        \o Push(i % b.w # 0, i - 1)
        \o Push((i + 1) % b.w # 0, i + 1)
        \o Push(i + b.w < size, i + b.w)
        \o Push(i >= b.w + 1 /\ i % b.w # 0, i - b.w - 1)
        \o Push(i + 1 >= b.w /\ (i + 1) % b.w # 0, i + 1 - b.w)
        \o Push(i + b.w - 1 < size /\ i % b.w # 0, i + b.w - 1)
        \o Push(i + b.w + 1 < size, i + b.w + 1)

(***************************************************************************)
(* Board::get_neighbors.  checked_sub(a, b).is_some() is a >= b.           *)
(***************************************************************************)
get_neighbors(b, i) ==
    LET size == b.w * b.h
        Push(c, x) == IF c THEN <<x>> ELSE <<>>
    IN  Push(i >= b.w, i - b.w)                                         \* north
        \o Push(i % b.w # 0, i - 1)                                     \* west
        \o Push((i + 1) % b.w # 0, i + 1)                               \* east
        \o Push(i + b.w < size, i + b.w)                                \* south
        \o Push(i >= b.w + 1 /\ i % b.w # 0, i - b.w - 1)               \* northwest
        \o Push(i + 1 >= b.w /\ (i + 1) % b.w # 0, i + 1 - b.w)         \* northeast
        \o Push(i + b.w - 1 < size /\ i % b.w # 0, i + b.w - 1)         \* southwest
        \o Push(i + b.w + 1 < size /\ (i + 1) % b.w # 0, i + b.w + 1)   \* southeast

(***************************************************************************)
(* Strings.  str::starts_with(prefix) and the char overload used on the    *)
(* start cell's letter.                                                    *)
(***************************************************************************)
\* Variant of starts_with: only the whole string counts as its prefix.
starts_with_whole_only(s, prefix) == s = prefix

starts_with(s, prefix) ==
    Len(prefix) <= Len(s) /\ SubSeq(s, 1, Len(prefix)) = prefix

starts_with_char(s, c) == Len(s) >= 1 /\ s[1] = c

(***************************************************************************)
(* Board::make_word_from_inds: the letters at inds_so_far, then the letter *)
(* at new_ind.                                                             *)
(***************************************************************************)
make_word_from_inds(b, inds_so_far, new_ind) ==
    [k \in 1..Len(inds_so_far) |-> b.letters[inds_so_far[k] + 1]]
        \o <<b.letters[new_ind + 1]>>

(***************************************************************************)
(* Board::find_next.  find_next_from is the body of its loop from the k-th *)
(* neighbour on: a candidate is a record for the tuple (word, positions).  *)
(***************************************************************************)
RECURSIVE find_next(_, _, _, _)
RECURSIVE find_next_from(_, _, _, _, _)

\* Variant of the loop of find_next: a neighbour already on the path is not
\* skipped.
RECURSIVE find_next_from_revisits(_, _, _, _, _)
find_next_from_revisits(b, ws, start_spots, nbr_inds, k) ==
    IF k > Len(nbr_inds) THEN <<>>
    ELSE
        LET nbr_idx == nbr_inds[k]
            later == find_next_from_revisits(b, ws, start_spots, nbr_inds, k + 1)
            word == make_word_from_inds(b, start_spots, nbr_idx)
            new_spots == Append(start_spots, nbr_idx)
            complete ==
                IF Contains(ws, word)
                THEN <<[word |-> word, path |-> new_spots]>>
                ELSE <<>>
            rem_words == SelectSeq(ws, LAMBDA x : starts_with(x, word))
            deeper ==
                IF rem_words = <<>> THEN <<>>
                ELSE find_next(b, rem_words, new_spots, nbr_idx)
        IN  complete \o deeper \o later

find_next_from(b, ws, start_spots, nbr_inds, k) ==
    IF k > Len(nbr_inds) THEN <<>>
    ELSE
        LET nbr_idx == nbr_inds[k]
            later == find_next_from(b, ws, start_spots, nbr_inds, k + 1)
        IN  IF Contains(start_spots, nbr_idx) THEN later
            ELSE
                LET word == make_word_from_inds(b, start_spots, nbr_idx)
                    new_spots == Append(start_spots, nbr_idx)
                    complete ==
                        IF Contains(ws, word)
                        THEN <<[word |-> word, path |-> new_spots]>>
                        ELSE <<>>
                    rem_words == SelectSeq(ws, LAMBDA x : starts_with(x, word))
                    deeper ==
                        IF rem_words = <<>> THEN <<>>
                        ELSE find_next(b, rem_words, new_spots, nbr_idx)
                IN  complete \o deeper \o later

find_next(b, ws, start_spots, current_board_position) ==
    IF ws = <<>> THEN <<>>
    ELSE find_next_from(b, ws, start_spots,
                        get_neighbors(b, current_board_position), 1)

(***************************************************************************)
(* Board::find_valid_words_from_start.                                     *)
(***************************************************************************)
find_valid_words_from_start(b, start, ws) ==
    LET new_words ==
            SelectSeq(ws, LAMBDA x : starts_with_char(x, b.letters[start + 1]))
    IN  find_next(b, new_words, <<start>>, start)

(***************************************************************************)
(* usize bit operations: a & b, a | b, count_ones, and the test of bit i   *)
(* (bits & (1 << i) != 0).                                                 *)
(***************************************************************************)
RECURSIVE BitAnd(_, _)
BitAnd(a, b) ==
    IF a = 0 \/ b = 0 THEN 0
    ELSE (a % 2) * (b % 2) + 2 * BitAnd(a \div 2, b \div 2)

RECURSIVE BitOr(_, _)
BitOr(a, b) ==
    IF a = 0 THEN b
    ELSE IF b = 0 THEN a
    ELSE (IF a % 2 = 1 \/ b % 2 = 1 THEN 1 ELSE 0)
         + 2 * BitOr(a \div 2, b \div 2)

RECURSIVE count_ones(_)
count_ones(a) == IF a = 0 THEN 0 ELSE (a % 2) + count_ones(a \div 2)

BitSet(bits, i) == (bits \div (2 ^ i)) % 2 = 1

\* Variant of bit_overlaps: never reports an overlap.
bit_overlaps_never(existing, new_indices) == FALSE

(***************************************************************************)
(* bit_overlaps.                                                           *)
(***************************************************************************)
bit_overlaps(existing, new_indices) == BitAnd(existing, new_indices) # 0

(***************************************************************************)
(* indices_to_bits: the fold of acc | (1 << idx) from 0.                   *)
(***************************************************************************)
RECURSIVE indices_to_bits(_)
indices_to_bits(indices) ==
    IF indices = <<>> THEN 0
    ELSE BitOr(indices_to_bits(SubSeq(indices, 1, Len(indices) - 1)),
               2 ^ indices[Len(indices)])

(***************************************************************************)
(* bits_to_indices: the cells of 0 .. w*h-1 whose bit is set, ascending.   *)
(***************************************************************************)
bits_to_indices(bits, board_w, board_h) ==
    SelectSeq([k \in 1..(board_w * board_h) |-> k - 1],
              LAMBDA i : BitSet(bits, i))

(***************************************************************************)
(* lines_intersect and its helper direction, on (isize, isize) points.     *)
(***************************************************************************)
direction(a, b, c) ==
    (b[1] - a[1]) * (c[2] - a[2]) - (b[2] - a[2]) * (c[1] - a[1])

\* Variant of lines_intersect without the test that no direction is zero:
\* a segment that only touches the other counts as crossing it.
lines_intersect_counts_touching(a1, a2, b1, b2) ==
    LET d1 == direction(a1, a2, b1)
        d2 == direction(a1, a2, b2)
        d3 == direction(b1, b2, a1)
        d4 == direction(b1, b2, a2)
    IN  /\ ((d1 <= 0 /\ d2 >= 0) \/ (d1 >= 0 /\ d2 <= 0))
        /\ ((d3 <= 0 /\ d4 >= 0) \/ (d3 >= 0 /\ d4 <= 0))

lines_intersect(a1, a2, b1, b2) ==
    LET d1 == direction(a1, a2, b1)
        d2 == direction(a1, a2, b2)
        d3 == direction(b1, b2, a1)
        d4 == direction(b1, b2, a2)
    IN  IF d1 # 0 /\ d2 # 0 /\ d3 # 0 /\ d4 # 0
        THEN /\ ((d1 < 0 /\ d2 > 0) \/ (d1 > 0 /\ d2 < 0))
             /\ ((d3 < 0 /\ d4 > 0) \/ (d3 > 0 /\ d4 < 0))
        ELSE FALSE

(***************************************************************************)
(* crosses_existing_lines.  Both loop bounds are len() - 1 on usize: with  *)
(* an empty new_block_indices, or an empty existing_indices and at least   *)
(* two new indices, the subtraction underflows (a panic in a debug build;  *)
(* in a release build the loop then indexes the empty slice at 0, a panic  *)
(* too).  crosses_existing_lines is the value returned when it does not    *)
(* panic; the early return on the first hit does not change the value.     *)
(***************************************************************************)
index_to_coords(index, board_w) == <<index \div board_w, index % board_w>>

crosses_panics(existing_indices, new_block_indices) ==
    \/ Len(new_block_indices) = 0
    \/ Len(new_block_indices) >= 2 /\ Len(existing_indices) = 0

crosses_existing_lines(existing_indices, new_block_indices, board_w) ==
    \E i \in 1..(Len(new_block_indices) - 1) :
        \E j \in 1..(Len(existing_indices) - 1) :
            lines_intersect(index_to_coords(new_block_indices[i], board_w),
                            index_to_coords(new_block_indices[i + 1], board_w),
                            index_to_coords(existing_indices[j], board_w),
                            index_to_coords(existing_indices[j + 1], board_w))

(***************************************************************************)
(* no_diagonal_overlap (main.rs): the crossing test on the ascending cell  *)
(* indices of the two masks.  It panics when the board mask is not empty   *)
(* and the block has no cell; the blocks of the solver always have cells   *)
(* (a candidate's path has at least two).                                  *)
(***************************************************************************)
no_diagonal_overlap(block, board_mask, board_w, board_h) ==
    LET block_indices == bits_to_indices(block, board_w, board_h)
        board_indices == bits_to_indices(board_mask, board_w, board_h)
    IN  IF board_indices = <<>> THEN TRUE
        ELSE ~crosses_existing_lines(board_indices, block_indices, board_w)

no_diagonal_overlap_panics(block, board_mask, board_w, board_h) ==
    LET block_indices == bits_to_indices(block, board_w, board_h)
        board_indices == bits_to_indices(board_mask, board_w, board_h)
    IN  board_indices # <<>> /\ crosses_panics(board_indices, block_indices)

(***************************************************************************)
(* The geometry the adjacency claims are stated against: cell i is at      *)
(* (row, col) = (i \div w, i % w).                                         *)
(***************************************************************************)
Row(b, i) == i \div b.w

Col(b, i) == i % b.w

Directions ==
    << <<-1, 0>>, <<0, -1>>, <<0, 1>>, <<1, 0>>,
       <<-1, -1>>, <<-1, 1>>, <<1, -1>>, <<1, 1>> >>

GridNeighbors(b, i) ==
    LET at == [k \in 1..8 |->
                  LET r == Row(b, i) + Directions[k][1]
                      c == Col(b, i) + Directions[k][2]
                  IN  IF r >= 0 /\ r < b.h /\ c >= 0 /\ c < b.w
                      THEN r * b.w + c ELSE -1]
    IN  SelectSeq(at, LAMBDA x : x >= 0)

Distinct(s) == \A j, k \in DOMAIN s : j # k => s[j] # s[k]

OnRowEdge(b, i) == Row(b, i) = 0 \/ Row(b, i) = b.h - 1

OnColEdge(b, i) == Col(b, i) = 0 \/ Col(b, i) = b.w - 1

PositionCount(b, i) ==
    IF OnRowEdge(b, i) /\ OnColEdge(b, i) THEN 3
    ELSE IF OnRowEdge(b, i) \/ OnColEdge(b, i) THEN 5
    ELSE 8

(***************************************************************************)
(* The paths the finder claims are stated against: simple paths of cells,  *)
(* each step to one of the up to eight cells a king's move away.           *)
(***************************************************************************)
Cells(b) == 0..(b.w * b.h - 1)

Abs(x) == IF x < 0 THEN -x ELSE x

Adjacent(b, i, j) ==
    /\ i # j
    /\ Abs(Row(b, i) - Row(b, j)) <= 1
    /\ Abs(Col(b, i) - Col(b, j)) <= 1

IsSimplePath(b, p) ==
    /\ Distinct(p)
    /\ \A k \in DOMAIN p : p[k] \in Cells(b)
    /\ \A k \in 1..(Len(p) - 1) : Adjacent(b, p[k], p[k + 1])

Spelled(b, p) == [k \in 1..Len(p) |-> b.letters[p[k] + 1]]

RECURSIVE SimplePathsOfLen(_, _, _)
SimplePathsOfLen(b, start, n) ==
    IF n = 1 THEN {<<start>>}
    ELSE {Append(p, c) : p \in SimplePathsOfLen(b, start, n - 1), c \in Cells(b)}
         \cap {p \in Seq(Cells(b)) : IsSimplePath(b, p)}

MaxListedLen(ws) ==
    IF ws = <<>> THEN 0
    ELSE CHOOSE n \in {Len(ws[k]) : k \in DOMAIN ws} :
            \A k \in DOMAIN ws : Len(ws[k]) <= n

ExpectedCandidates(b, start, ws) ==
    {[word |-> Spelled(b, p), path |-> p] :
        p \in {q \in UNION {SimplePathsOfLen(b, start, n) : n \in 2..MaxListedLen(ws)} :
                  Contains(ws, Spelled(b, q))}}

(***************************************************************************)
(* Values of the variables a specification does not use.                   *)
(***************************************************************************)
IdleNbr == nbr_i = 0 /\ neighbors = <<>>

IdleFind == start_point = 0 /\ result = <<>>

IdleSolve ==
    /\ all_words_that_fit = <<>>
    /\ max_len = 0
    /\ condensed_words = <<>>
    /\ flattened_words_that_fit = <<>>
    /\ stack = <<>>
    /\ selected_blocks = <<>>
    /\ picked = <<>>
    /\ entered = <<>>
    /\ inds = NoValue
    /\ solution = NoValue

IdleCall == call = NoValue

solve_vars == <<all_words_that_fit, max_len, condensed_words,
                flattened_words_that_fit, stack, selected_blocks, picked,
                entered, inds, solution>>

(***************************************************************************)
(* SpecNbr: get_neighbors on every cell of every grid up to NbrMaxW x      *)
(* NbrMaxH.                                                                *)
(***************************************************************************)
InitNbr ==
    /\ \E w \in 1..NbrMaxW, h \in 1..NbrMaxH :
          /\ board = [letters |-> [k \in 1..(w * h) |-> 0], w |-> w, h |-> h]
          /\ nbr_i \in 0..(w * h - 1)
    /\ neighbors = <<>>
    /\ pc = "call"
    /\ words = <<>>
    /\ IdleFind
    /\ IdleSolve
    /\ IdleCall

CallGetNeighbors ==
    /\ pc = "call"
    /\ neighbors' = get_neighbors(board, nbr_i)
    /\ pc' = "done"
    /\ UNCHANGED <<board, nbr_i, start_point, words, result>>
    /\ UNCHANGED solve_vars
    /\ UNCHANGED call

NextNbr == CallGetNeighbors

SpecNbr == InitNbr /\ [][NextNbr]_vars

(***************************************************************************)
(* SpecFind: find_valid_words_from_start on every lettering of the boards  *)
(* of FindDims over Alphabet, every start cell and every sorted,           *)
(* deduplicated word list of at most FindMaxWords words of at most         *)
(* FindMaxWordLen letters (main sorts and deduplicates valid_words).       *)
(***************************************************************************)
RECURSIVE StrLess(_, _)
StrLess(s, t) ==
    IF s = <<>> THEN t # <<>>
    ELSE IF t = <<>> THEN FALSE
    ELSE IF s[1] # t[1] THEN s[1] < t[1]
    ELSE StrLess(Tail(s), Tail(t))

AllWords(alphabet, maxlen) ==
    UNION {[1..n -> alphabet] : n \in 1..maxlen}

\* The sorted, deduplicated lists of at most n words of pool.
RECURSIVE SortedWordLists(_, _)
SortedWordLists(pool, n) ==
    IF n = 0 THEN {<<>>}
    ELSE LET shorter == SortedWordLists(pool, n - 1)
         IN  shorter \cup
             UNION {{Append(ws, x) :
                        x \in {y \in pool : ws = <<>> \/ StrLess(ws[Len(ws)], y)}} :
                    ws \in {v \in shorter : Len(v) = n - 1}}

InitFind ==
    /\ \E d \in FindDims :
          /\ \E ls \in [1..(d[1] * d[2]) -> Alphabet] :
                board = [letters |-> ls, w |-> d[1], h |-> d[2]]
          /\ start_point \in 0..(d[1] * d[2] - 1)
    /\ words \in SortedWordLists(AllWords(Alphabet, FindMaxWordLen), FindMaxWords)
    /\ result = <<>>
    /\ pc = "call"
    /\ IdleNbr
    /\ IdleSolve
    /\ IdleCall

CallFindValidWords ==
    /\ pc = "call"
    /\ result' = find_valid_words_from_start(board, start_point, words)
    /\ pc' = "done"
    /\ UNCHANGED <<board, nbr_i, neighbors, start_point, words>>
    /\ UNCHANGED solve_vars
    /\ UNCHANGED call

NextFind == CallFindValidWords

SpecFind == InitFind /\ [][NextFind]_vars

(***************************************************************************)
(* The solver.  Option values, and the pieces of solve and inner_solve.    *)
(***************************************************************************)
None == [some |-> FALSE]

Some(v) == [some |-> TRUE, value |-> v]

RECURSIVE Flatten(_)
Flatten(ss) == IF ss = <<>> THEN <<>> ELSE Head(ss) \o Flatten(Tail(ss))

\* iter().position(|x| x == ind): the first position (0-based) holding ind.
position(s, x) ==
    (CHOOSE k \in DOMAIN s : s[k] = x /\ \A j \in 1..(k - 1) : s[j] # x) - 1

\* A call of inner_solve: its board argument, where its blocks slice starts
\* in condensed_words (blocks = condensed_words[base..]), the loop's idx, and
\* where the call stands: at its entry, at the head of a loop iteration,
\* after placing a block, or waiting for the call it made.
Frame(board_mask, base) ==
    [board |-> board_mask, base |-> base, idx |-> 0, at |-> "entry"]

Top == stack[Len(stack)]

SetTop(f) == [stack EXCEPT ![Len(stack)] = f]

BlocksLen(f) == Len(condensed_words) - f.base

Block(f) == condensed_words[f.base + f.idx + 1]

NewBoard(f) == BitOr(Block(f), f.board)

\* The test of line 244.
can_place(block, board_mask) ==
    /\ ~bit_overlaps(block, board_mask)
    /\ no_diagonal_overlap(block, board_mask, board.w, board.h)

(***************************************************************************)
(* SpecSolve: main from the parsed board on.  The board is one of          *)
(* SolveCases with a different letter in every cell; the word list is a    *)
(* sorted, deduplicated list of at most SolveMaxDict words, each spelled   *)
(* by some path of at most the case's longest length (a word no path       *)
(* spells gives no candidate); max_words is at most SolveMaxWords.         *)
(***************************************************************************)
TraceableWords(b, maxlen) ==
    {Spelled(b, p) :
        p \in UNION {SimplePathsOfLen(b, st, n) : st \in Cells(b), n \in 2..maxlen}}

InitSolve ==
    /\ \E c \in SolveCases :
          /\ board = [letters |-> [k \in 1..(c.w * c.h) |-> k - 1],
                      w |-> c.w, h |-> c.h]
          /\ words \in SortedWordLists(TraceableWords(board, c.longest),
                                       SolveMaxDict)
    /\ max_len \in 0..SolveMaxWords
    /\ pc = "main"
    /\ all_words_that_fit = <<>>
    /\ condensed_words = <<>>
    /\ flattened_words_that_fit = <<>>
    /\ stack = <<>>
    /\ selected_blocks = <<>>
    /\ picked = <<>>
    /\ entered = <<>>
    /\ inds = NoValue
    /\ solution = NoValue
    /\ IdleNbr
    /\ IdleFind
    /\ IdleCall

\* main, lines 366-368: the finder from every start cell, ascending.
main_find_words ==
    /\ pc = "main"
    /\ all_words_that_fit' =
          [st \in 1..(board.w * board.h) |->
              find_valid_words_from_start(board, st - 1, words)]
    /\ pc' = "solve"
    /\ UNCHANGED <<board, nbr_i, neighbors, start_point, words, result, max_len,
                   condensed_words, flattened_words_that_fit, stack,
                   selected_blocks, picked, entered, inds, solution, call>>

\* solve, lines 191-219: flatten, and call inner_solve(0, &condensed_words, ..).
solve_begin ==
    /\ pc = "solve"
    /\ LET flat == Flatten(all_words_that_fit)
       IN  /\ condensed_words' =
                 [k \in 1..Len(flat) |-> indices_to_bits(flat[k].path)]
           /\ flattened_words_that_fit' = [k \in 1..Len(flat) |-> flat[k].word]
    /\ selected_blocks' = <<>>
    /\ picked' = <<>>
    /\ stack' = <<Frame(0, 0)>>
    /\ entered' = << <<>> >>
    /\ pc' = "inner"
    /\ UNCHANGED <<board, nbr_i, neighbors, start_point, words, result,
                   all_words_that_fit, max_len, inds, solution, call>>

inner_frame == <<board, nbr_i, neighbors, start_point, words, result,
                 all_words_that_fit, max_len, condensed_words,
                 flattened_words_that_fit, solution, call>>

\* return None: the call ends; the outermost call hands None to solve.
ReturnNone ==
    /\ stack' = SubSeq(stack, 1, Len(stack) - 1)
    /\ entered' = SubSeq(entered, 1, Len(entered) - 1)
    /\ IF Len(stack) = 1
       THEN inds' = None /\ pc' = "returned"
       ELSE UNCHANGED <<inds, pc>>

\* inner_solve, lines 238-240: too many blocks already.
inner_too_many ==
    /\ pc = "inner" /\ Top.at = "entry"
    /\ Len(selected_blocks) >= max_len
    /\ ReturnNone
    /\ UNCHANGED <<selected_blocks, picked>>
    /\ UNCHANGED inner_frame

\* inner_solve, line 242: the loop starts.
inner_enter_loop ==
    /\ pc = "inner" /\ Top.at = "entry"
    /\ Len(selected_blocks) < max_len
    /\ stack' = SetTop([Top EXCEPT !.at = "loop"])
    /\ UNCHANGED entered
    /\ UNCHANGED <<selected_blocks, picked, inds, pc>>
    /\ UNCHANGED inner_frame

\* inner_solve, line 244: the block cannot be placed; next block.
inner_skip ==
    /\ pc = "inner" /\ Top.at = "loop"
    /\ Top.idx < BlocksLen(Top)
    /\ ~can_place(Block(Top), Top.board)
    /\ stack' = SetTop([Top EXCEPT !.idx = @ + 1])
    /\ UNCHANGED entered
    /\ UNCHANGED <<selected_blocks, picked, inds, pc>>
    /\ UNCHANGED inner_frame

\* inner_solve, lines 244-247: place the block.
inner_place ==
    /\ pc = "inner" /\ Top.at = "loop"
    /\ Top.idx < BlocksLen(Top)
    /\ can_place(Block(Top), Top.board)
    /\ selected_blocks' = Append(selected_blocks, Block(Top))
    /\ picked' = Append(picked, Top.base + Top.idx)
    /\ stack' = SetTop([Top EXCEPT !.at = "placed"])
    /\ UNCHANGED entered
    /\ UNCHANGED <<inds, pc>>
    /\ UNCHANGED inner_frame

\* inner_solve, lines 250-252 (and 270 in every caller): the board is
\* filled; Some(selected_blocks.clone()) goes up to solve unchanged.
inner_filled ==
    /\ pc = "inner" /\ Top.at = "placed"
    /\ count_ones(NewBoard(Top)) = board.h * board.w
    /\ inds' = Some(selected_blocks)
    /\ stack' = <<>>
    /\ entered' = <<>>
    /\ pc' = "returned"
    /\ UNCHANGED <<selected_blocks, picked>>
    /\ UNCHANGED inner_frame

\* Variant of the step of lines 256-259: at max_len the call gives up
\* (return None) instead of going on to the next block.
inner_at_max_len_gives_up ==
    /\ pc = "inner" /\ Top.at = "placed"
    /\ count_ones(NewBoard(Top)) # board.h * board.w
    /\ Len(selected_blocks) >= max_len
    /\ selected_blocks' = SubSeq(selected_blocks, 1, Len(selected_blocks) - 1)
    /\ picked' = SubSeq(picked, 1, Len(picked) - 1)
    /\ ReturnNone
    /\ UNCHANGED inner_frame

\* inner_solve, lines 256-259: at max_len and not filled; remove the block.
inner_at_max_len ==
    /\ pc = "inner" /\ Top.at = "placed"
    /\ count_ones(NewBoard(Top)) # board.h * board.w
    /\ Len(selected_blocks) >= max_len
    /\ selected_blocks' = SubSeq(selected_blocks, 1, Len(selected_blocks) - 1)
    /\ picked' = SubSeq(picked, 1, Len(picked) - 1)
    /\ stack' = SetTop([Top EXCEPT !.idx = @ + 1, !.at = "loop"])
    /\ UNCHANGED entered
    /\ UNCHANGED <<inds, pc>>
    /\ UNCHANGED inner_frame

\* Variant of the step of lines 262-269: the recursive call gets the whole
\* slice again (blocks instead of blocks[idx + 1..]).
inner_recurse_from_start ==
    /\ pc = "inner" /\ Top.at = "placed"
    /\ count_ones(NewBoard(Top)) # board.h * board.w
    /\ Len(selected_blocks) < max_len
    /\ stack' = Append(SetTop([Top EXCEPT !.at = "called"]),
                       Frame(NewBoard(Top), Top.base))
    /\ entered' = Append(entered, selected_blocks)
    /\ UNCHANGED <<selected_blocks, picked, inds, pc>>
    /\ UNCHANGED inner_frame

\* inner_solve, lines 262-269: the recursive call on blocks[idx + 1..].
inner_recurse ==
    /\ pc = "inner" /\ Top.at = "placed"
    /\ count_ones(NewBoard(Top)) # board.h * board.w
    /\ Len(selected_blocks) < max_len
    /\ stack' = Append(SetTop([Top EXCEPT !.at = "called"]),
                       Frame(NewBoard(Top), Top.base + Top.idx + 1))
    /\ entered' = Append(entered, selected_blocks)
    /\ UNCHANGED <<selected_blocks, picked, inds, pc>>
    /\ UNCHANGED inner_frame

\* Variant of the step of lines 273-274: the block stays in selected_blocks
\* (no pop) when the loop goes on to the next block.
inner_backtrack_keeps_block ==
    /\ pc = "inner" /\ Top.at = "called"
    /\ stack' = SetTop([Top EXCEPT !.idx = @ + 1, !.at = "loop"])
    /\ UNCHANGED <<selected_blocks, picked, entered, inds, pc>>
    /\ UNCHANGED inner_frame

\* inner_solve, lines 273-274: the call returned None; backtrack.
inner_backtrack ==
    /\ pc = "inner" /\ Top.at = "called"
    /\ selected_blocks' = SubSeq(selected_blocks, 1, Len(selected_blocks) - 1)
    /\ picked' = SubSeq(picked, 1, Len(picked) - 1)
    /\ stack' = SetTop([Top EXCEPT !.idx = @ + 1, !.at = "loop"])
    /\ UNCHANGED entered
    /\ UNCHANGED <<inds, pc>>
    /\ UNCHANGED inner_frame

\* inner_solve, line 277: the loop is over.
inner_exhausted ==
    /\ pc = "inner" /\ Top.at = "loop"
    /\ Top.idx = BlocksLen(Top)
    /\ ReturnNone
    /\ UNCHANGED <<selected_blocks, picked>>
    /\ UNCHANGED inner_frame

\* Variant of the step of line 220: None becomes an empty word list
\* (unwrap_or_default) instead of a panic.
solve_none_is_empty ==
    /\ pc = "returned"
    /\ inds = None
    /\ solution' = [panic |-> FALSE, words |-> <<>>]
    /\ pc' = "done"
    /\ UNCHANGED <<board, nbr_i, neighbors, start_point, words, result,
                   all_words_that_fit, max_len, condensed_words,
                   flattened_words_that_fit, stack, selected_blocks, picked,
                   entered, inds, call>>

\* solve, line 220: .expect("Could not find a solution") on None panics.
solve_expect_panics ==
    /\ pc = "returned"
    /\ inds = None
    /\ solution' = [panic |-> TRUE, words |-> <<>>]
    /\ pc' = "done"
    /\ UNCHANGED <<board, nbr_i, neighbors, start_point, words, result,
                   all_words_that_fit, max_len, condensed_words,
                   flattened_words_that_fit, stack, selected_blocks, picked,
                   entered, inds, call>>

\* solve, lines 223-226: each returned mask is looked up in condensed_words
\* and the word at the first position holding it is returned.
solve_collect_words ==
    /\ pc = "returned"
    /\ inds # None
    /\ solution' =
          [panic |-> FALSE,
           words |-> [k \in 1..Len(inds.value) |->
                        flattened_words_that_fit[
                            position(condensed_words, inds.value[k]) + 1]]]
    /\ pc' = "done"
    /\ UNCHANGED <<board, nbr_i, neighbors, start_point, words, result,
                   all_words_that_fit, max_len, condensed_words,
                   flattened_words_that_fit, stack, selected_blocks, picked,
                   entered, inds, call>>

NextSolve ==
    \/ main_find_words
    \/ solve_begin
    \/ inner_too_many
    \/ inner_enter_loop
    \/ inner_skip
    \/ inner_place
    \/ inner_filled
    \/ inner_at_max_len
    \/ inner_recurse
    \/ inner_backtrack
    \/ inner_exhausted
    \/ solve_expect_panics
    \/ solve_collect_words

SpecSolve == InitSolve /\ [][NextSolve]_vars

(***************************************************************************)
(* What the solver claims are stated against.  Candidates are numbered     *)
(* from 0 in the flattened list, as picked numbers them.                   *)
(***************************************************************************)
Flat == Flatten(all_words_that_fit)

Candidate(i) == Flat[i + 1]

CellSet(mask) == {i \in Cells(board) : BitSet(mask, i)}

PathCells(i) == Range(Candidate(i).path)

\* The crossing of two candidates' ordered paths: some segment of one
\* properly intersects some segment of the other.
PathsCross(i, j) ==
    \E a \in 1..(Len(Candidate(i).path) - 1) :
        \E c \in 1..(Len(Candidate(j).path) - 1) :
            lines_intersect(index_to_coords(Candidate(i).path[a], board.w),
                            index_to_coords(Candidate(i).path[a + 1], board.w),
                            index_to_coords(Candidate(j).path[c], board.w),
                            index_to_coords(Candidate(j).path[c + 1], board.w))

Returned == pc \in {"returned", "done"}

Solved == pc = "done" /\ ~solution.panic

\* A set of candidates that solves the puzzle: at most max_len of them,
\* cells pairwise disjoint, paths pairwise not crossing, every cell covered.
IsCover(S) ==
    /\ Cardinality(S) <= max_len
    /\ \A i, j \in S : i # j =>
          PathCells(i) \cap PathCells(j) = {} /\ ~PathsCross(i, j)
    /\ UNION {PathCells(i) : i \in S} = Cells(board)

CoverExists == \E S \in SUBSET (0..(Len(Flat) - 1)) : IsCover(S)

\* The strictly increasing index sequences of at most m candidates.
RECURSIVE IncreasingSeqs(_, _)
IncreasingSeqs(n, m) ==
    IF m = 0 THEN {<<>>}
    ELSE LET shorter == IncreasingSeqs(n, m - 1)
             longer == {Append(q, x) : q \in {v \in shorter : Len(v) = m - 1},
                                       x \in 0..(n - 1)}
         IN  shorter \cup
             {q \in longer : \A k \in 1..(Len(q) - 1) : q[k] < q[k + 1]}

RECURSIVE BoardOf(_)
BoardOf(q) ==
    IF q = <<>> THEN 0
    ELSE BitOr(BoardOf(SubSeq(q, 1, Len(q) - 1)),
               condensed_words[q[Len(q)] + 1])

\* Every candidate passes the solver's placement test against the ones
\* before it, and the last one completes the coverage.
PassesSearch(q) ==
    /\ q # <<>>
    /\ \A k \in 1..Len(q) :
          can_place(condensed_words[q[k] + 1], BoardOf(SubSeq(q, 1, k - 1)))
    /\ count_ones(BoardOf(q)) = board.w * board.h

SearchSolutions ==
    {q \in IncreasingSeqs(Len(condensed_words), max_len) : PassesSearch(q)}

RECURSIVE LexLess(_, _)
LexLess(a, b) ==
    IF a = <<>> THEN b # <<>>
    ELSE IF b = <<>> THEN FALSE
    ELSE IF a[1] # b[1] THEN a[1] < b[1]
    ELSE LexLess(Tail(a), Tail(b))

LexFirst(V) == CHOOSE q \in V : \A r \in V : r = q \/ LexLess(q, r)

(* C1: a returned selection is an exact cover with at most max_words       *)
(* pieces: the selected masks together are the full-board mask, no two     *)
(* share a bit, and there are at most max_words of them.                   *)
C1_ExactCover ==
    (Returned /\ inds # None) =>
        LET sel == inds.value
        IN  /\ UNION {CellSet(sel[k]) : k \in DOMAIN sel} = Cells(board)
            /\ BoardOf(picked) = 2 ^ (board.w * board.h) - 1
            /\ \A j, k \in DOMAIN sel :
                  j # k => CellSet(sel[j]) \cap CellSet(sel[k]) = {}
            /\ Len(sel) <= max_len
            /\ Len(picked) = Len(sel)
            /\ \A k \in DOMAIN sel : CellSet(sel[k]) = PathCells(picked[k])

C1_Witness ==
    /\ Solved
    /\ Len(inds.value) = 3
    /\ Len(condensed_words) = 4
    /\ picked # <<0, 1, 2>>

(* C2: in a returned solution no two selected candidates' ordered paths    *)
(* cross.                                                                  *)
C2_NoSelectedPathsCross ==
    Solved =>
        \A j, k \in DOMAIN picked :
            j # k => ~PathsCross(picked[j], picked[k])

(* C3: whenever some set of at most max_words candidates with pairwise     *)
(* disjoint masks and pairwise non-crossing paths covers the board, solve  *)
(* returns a selection.                                                    *)
C3_FindsExistingCover ==
    (pc = "done" /\ CoverExists) => ~solution.panic

(* C4 as stated: when the search is exhausted, solve reports it as a       *)
(* result value and does not panic.                                        *)
C4_NoSolutionIsAValue ==
    (pc = "done" /\ SearchSolutions = {}) => ~solution.panic

(* C4 amended: when the search is exhausted (including max_words = 0 and   *)
(* an empty candidate list) inner_solve returns None to solve, and solve   *)
(* panics on it; solve panics in no other case.                            *)
C4_NoSolutionPanics ==
    /\ (Returned /\ SearchSolutions = {}) => inds = None
    /\ pc = "done" => (solution.panic <=> SearchSolutions = {})
    /\ pc = "done" => (solution.panic <=> inds = None)

C4_Witness ==
    /\ pc = "done"
    /\ solution.panic
    /\ max_len = 2
    /\ Len(condensed_words) = 4
    /\ \E S \in SUBSET (0..3) :
          UNION {PathCells(i) : i \in S} = Cells(board)

(* C5: solve's search returns the lexicographically smallest of the        *)
(* strictly increasing index sequences of at most max_words candidates in  *)
(* which every candidate passes the placement test against those before it *)
(* and the last completes the coverage, and None when there is none.       *)
C5_FirstSolutionWins ==
    Returned =>
        IF SearchSolutions = {} THEN inds = None
        ELSE LET first == LexFirst(SearchSolutions)
             IN  /\ picked = first
                 /\ inds = Some([k \in 1..Len(first) |->
                                    condensed_words[first[k] + 1]])

C5_Witness ==
    /\ Solved
    /\ Cardinality(SearchSolutions) >= 2
    /\ picked = LexFirst(SearchSolutions)
    /\ picked[1] # 0

(* C6: the i-th returned word is the word of the i-th selected candidate.  *)
C6_WordsOfSelected ==
    Solved =>
        solution.words = [k \in 1..Len(picked) |-> Candidate(picked[k]).word]

(* C9: get_neighbors(i) is exactly the in-grid cells at the eight offsets,  *)
(* in the order north, west, east, south, northwest, northeast, southwest, *)
(* southeast, with no wraparound, never i, never out of range, no          *)
(* duplicates.                                                             *)
C9_AdjacencyCorrect ==
    pc = "done" =>
        /\ neighbors = GridNeighbors(board, nbr_i)
        /\ ~Contains(neighbors, nbr_i)
        /\ \A k \in DOMAIN neighbors :
              neighbors[k] >= 0 /\ neighbors[k] < board.w * board.h
        /\ Distinct(neighbors)

C9_Witness ==
    /\ pc = "done"
    /\ board.w # board.h
    /\ Col(board, nbr_i) = 0
    /\ Row(board, nbr_i) > 0 /\ Row(board, nbr_i) < board.h - 1
    /\ Len(neighbors) = 5

(* C10 as stated: on every grid with W >= 1 and H >= 1, get_neighbors      *)
(* returns between 3 and 8 distinct indices: 3 at a corner, 5 on an edge,  *)
(* 8 in the interior.                                                      *)
C10_CountAnyGrid ==
    pc = "done" =>
        /\ Distinct(neighbors)
        /\ Len(neighbors) >= 3 /\ Len(neighbors) <= 8
        /\ Len(neighbors) = PositionCount(board, nbr_i)

(* C10 amended: on every grid with W >= 2 and H >= 2, get_neighbors        *)
(* returns distinct indices, 3 at a corner, 5 on a non-corner edge, 8 in   *)
(* the interior; on a grid one cell wide or high it returns at most 2.     *)
C10_CountFromTwoByTwo ==
    pc = "done" =>
        /\ Distinct(neighbors)
        /\ (board.w >= 2 /\ board.h >= 2) =>
              Len(neighbors) = PositionCount(board, nbr_i)
        /\ (board.w = 1 \/ board.h = 1) => Len(neighbors) <= 2

C10_Witness ==
    /\ pc = "done"
    /\ board.w = 3 /\ board.h = 4
    /\ ~OnRowEdge(board, nbr_i) /\ ~OnColEdge(board, nbr_i)
    /\ Len(neighbors) = 8

(* C7: every emitted (word, path) has path[0] = start, no repeated cell,   *)
(* consecutive cells 8-adjacent, as many letters as cells, the word equal  *)
(* to the board letters along the path, and the word in the word list.     *)
C7_CandidateValid ==
    pc = "done" =>
        \A k \in DOMAIN result :
            LET c == result[k]
            IN  /\ c.path[1] = start_point
                /\ IsSimplePath(board, c.path)
                /\ Len(c.word) = Len(c.path)
                /\ c.word = Spelled(board, c.path)
                /\ Contains(words, c.word)

C7_Witness ==
    /\ pc = "done"
    /\ Len(result) >= 2
    /\ \E k \in DOMAIN result : Len(result[k].path) = 3
    /\ \E j, k \in DOMAIN result : result[j].word # result[k].word

(* C8: the finder emits, exactly once each, every (word, path) with path a *)
(* simple 8-adjacent path of at least two cells from the start cell whose   *)
(* letters spell a word-list entry; a one-letter entry is never emitted.   *)
C8_CandidateComplete ==
    pc = "done" =>
        /\ Distinct(result)
        /\ Range(result) = ExpectedCandidates(board, start_point, words)
        /\ \A k \in DOMAIN result : Len(result[k].path) >= 2

C8_Witness ==
    /\ pc = "done"
    /\ Contains(words, <<board.letters[start_point + 1]>>)
    /\ \E j, k \in DOMAIN result :
          /\ Len(result[j].path) = 2
          /\ Len(result[k].path) = 3
          /\ SubSeq(result[k].path, 1, 2) = result[j].path
    /\ \E j, k \in DOMAIN result :
          j # k /\ result[j].word = result[k].word

(***************************************************************************)
(* How a call of a function on its own ends: it returns a value or it      *)
(* panics.                                                                 *)
(***************************************************************************)
Panic == [panic |-> TRUE, value |-> FALSE]

Ok(v) == [panic |-> FALSE, value |-> v]

\* crosses_existing_lines as its caller sees it.
crosses_call(existing_indices, new_block_indices, board_w) ==
    IF crosses_panics(existing_indices, new_block_indices) THEN Panic
    ELSE Ok(crosses_existing_lines(existing_indices, new_block_indices, board_w))

(***************************************************************************)
(* SpecCross: crosses_existing_lines on every pair of index slices of at   *)
(* most CrossMaxLen indices in 0 .. CrossMaxIndex (any indices, as the     *)
(* signature allows: empty, one index, repeated or far-apart indices) and  *)
(* every width 1 .. CrossMaxW.                                             *)
(***************************************************************************)
IndexLists(maxidx, maxlen) == UNION {[1..n -> 0..maxidx] : n \in 0..maxlen}

InitCross ==
    /\ \E w \in 1..CrossMaxW :
          \E e, n \in IndexLists(CrossMaxIndex, CrossMaxLen) :
             call = [existing_indices |-> e, new_block_indices |-> n,
                     board_w |-> w, out |-> NoValue]
    /\ pc = "call"
    /\ board = [letters |-> <<>>, w |-> 0, h |-> 0]
    /\ words = <<>>
    /\ IdleNbr
    /\ IdleFind
    /\ IdleSolve

CallCrossesExistingLines ==
    /\ pc = "call"
    /\ call' = [call EXCEPT !.out = crosses_call(call.existing_indices,
                                                 call.new_block_indices,
                                                 call.board_w)]
    /\ pc' = "done"
    /\ UNCHANGED <<board, nbr_i, neighbors, start_point, words, result>>
    /\ UNCHANGED solve_vars

NextCross == CallCrossesExistingLines

SpecCross == InitCross /\ [][NextCross]_vars

(***************************************************************************)
(* C11: crosses_existing_lines(A, B, w) and crosses_existing_lines(B, A,   *)
(* w) end the same way (the same value, or both panic) for all index       *)
(* paths A and B, the empty and the one-index paths included, and every    *)
(* width w >= 1.                                                           *)
(***************************************************************************)
C11_CrossingSymmetric ==
    pc = "done" =>
        call.out = crosses_call(call.new_block_indices, call.existing_indices,
                                call.board_w)

(***************************************************************************)
(* The plane geometry the crossing claims are stated against.  Index i is  *)
(* the point (i \div w, i % w); a segment joins two consecutive indices of *)
(* a path.                                                                 *)
(***************************************************************************)
Point(i, w) == <<i \div w, i % w>>

Minus(p, q) == <<p[1] - q[1], p[2] - q[2]>>

Cross(u, v) == u[1] * v[2] - u[2] * v[1]

Sign(x) == IF x > 0 THEN 1 ELSE IF x < 0 THEN -1 ELSE 0

\* On which side of the line through p and q the point r lies (0: on it).
Side(p, q, r) == Sign(Cross(Minus(q, p), Minus(r, p)))

ProperlyIntersect(a1, a2, b1, b2) ==
    /\ Side(a1, a2, b1) * Side(a1, a2, b2) = -1
    /\ Side(b1, b2, a1) * Side(b1, b2, a2) = -1

\* Parallel segments, the collinear and the zero-length ones included.
Parallel(a1, a2, b1, b2) == Cross(Minus(a2, a1), Minus(b2, b1)) = 0

Between(x, lo, hi) == (lo <= x /\ x <= hi) \/ (hi <= x /\ x <= lo)

OnSegment(r, p, q) ==
    /\ Cross(Minus(q, p), Minus(r, p)) = 0
    /\ Between(r[1], p[1], q[1])
    /\ Between(r[2], p[2], q[2])

\* An endpoint of one segment lies on the other segment.
Touches(a1, a2, b1, b2) ==
    \/ OnSegment(b1, a1, a2) \/ OnSegment(b2, a1, a2)
    \/ OnSegment(a1, b1, b2) \/ OnSegment(a2, b1, b2)

\* The pairs <<i, j>>: segment i of the new path, segment j of the existing.
SegmentPairs ==
    (1..(Len(call.new_block_indices) - 1))
        \X (1..(Len(call.existing_indices) - 1))

NewSeg(i) ==
    <<Point(call.new_block_indices[i], call.board_w),
      Point(call.new_block_indices[i + 1], call.board_w)>>

ExistingSeg(j) ==
    <<Point(call.existing_indices[j], call.board_w),
      Point(call.existing_indices[j + 1], call.board_w)>>

PairProper(ij) ==
    ProperlyIntersect(NewSeg(ij[1])[1], NewSeg(ij[1])[2],
                      ExistingSeg(ij[2])[1], ExistingSeg(ij[2])[2])

PairParallelOrTouching(ij) ==
    \/ Parallel(NewSeg(ij[1])[1], NewSeg(ij[1])[2],
                ExistingSeg(ij[2])[1], ExistingSeg(ij[2])[2])
    \/ Touches(NewSeg(ij[1])[1], NewSeg(ij[1])[2],
               ExistingSeg(ij[2])[1], ExistingSeg(ij[2])[2])

(***************************************************************************)
(* C12: crosses_existing_lines returns true if and only if some segment of *)
(* the new path and some segment of the existing path properly intersect   *)
(* (each segment's endpoints strictly on opposite sides of the other, no   *)
(* orientation zero); when every pair of segments is parallel, collinear   *)
(* or only touching, it does not return true.                              *)
(***************************************************************************)
C12_TrueIffProperIntersection ==
    pc = "done" =>
        /\ (call.out = Ok(TRUE)) <=> (\E ij \in SegmentPairs : PairProper(ij))
        /\ (\A ij \in SegmentPairs : PairParallelOrTouching(ij))
              => call.out # Ok(TRUE)

\* Two three-index paths: one pair of segments crosses, another only touches.
C12_Witness ==
    /\ pc = "done"
    /\ call.out = Ok(TRUE)
    /\ Len(call.new_block_indices) = 3
    /\ Len(call.existing_indices) = 3
    /\ \E ij \in SegmentPairs : PairProper(ij)
    /\ \E ij \in SegmentPairs :
          /\ ~PairProper(ij)
          /\ Touches(NewSeg(ij[1])[1], NewSeg(ij[1])[2],
                     ExistingSeg(ij[2])[1], ExistingSeg(ij[2])[2])
          /\ ~Parallel(NewSeg(ij[1])[1], NewSeg(ij[1])[2],
                       ExistingSeg(ij[2])[1], ExistingSeg(ij[2])[2])

(***************************************************************************)
(* no_diagonal_overlap of the library (src/src/lib.rs): for every 2x2      *)
(* window of the board, the bits of block (b1..b4) and of board (e1..e4)   *)
(* at its four cells.  In Rust & and | bind tighter than != and &&, so     *)
(* b1 & e4 != 0 is (b1 & e4) != 0.  The shifts stay far below 64 bits.     *)
(***************************************************************************)
Bit(bits, i) == (bits \div (2 ^ i)) % 2

lib_window_rejects(block, board_mask, i1, board_width) ==
    LET i2 == i1 + 1
        i3 == i1 + board_width
        i4 == i3 + 1
        b1 == Bit(block, i1)
        b2 == Bit(block, i2)
        b3 == Bit(block, i3)
        b4 == Bit(block, i4)
        e1 == Bit(board_mask, i1)
        e2 == Bit(board_mask, i2)
        e3 == Bit(board_mask, i3)
        e4 == Bit(board_mask, i4)
    IN  \/ BitAnd(b1, e4) # 0
        \/ BitAnd(b2, e3) # 0
        \/ BitAnd(b3, e2) # 0
        \/ BitAnd(b4, e1) # 0
        \/ (BitAnd(b1, b2) # 0 /\ BitOr(e3, e4) # 0)
        \/ (BitAnd(b3, b4) # 0 /\ BitOr(e1, e2) # 0)
        \/ (BitAnd(b1, b3) # 0 /\ BitOr(e2, e4) # 0)
        \/ (BitAnd(b2, b4) # 0 /\ BitOr(e1, e3) # 0)

lib_no_diagonal_overlap(block, board_mask, board_width, board_height) ==
    ~ \E y \in 0..(board_height - 2), x \in 0..(board_width - 2) :
          lib_window_rejects(block, board_mask, y * board_width + x, board_width)

(***************************************************************************)
(* SpecLib: the library's no_diagonal_overlap on every pair of masks of    *)
(* every board up to LibMaxW x LibMaxH.                                    *)
(***************************************************************************)
InitLib ==
    /\ \E w \in 1..LibMaxW, h \in 1..LibMaxH :
          \E bl, bo \in 0..(2 ^ (w * h) - 1) :
             call = [block |-> bl, board |-> bo, board_width |-> w,
                     board_height |-> h, out |-> NoValue]
    /\ pc = "call"
    /\ board = [letters |-> <<>>, w |-> 0, h |-> 0]
    /\ words = <<>>
    /\ IdleNbr
    /\ IdleFind
    /\ IdleSolve

CallLibNoDiagonalOverlap ==
    /\ pc = "call"
    /\ call' = [call EXCEPT !.out = Ok(lib_no_diagonal_overlap(
                                          call.block, call.board,
                                          call.board_width, call.board_height))]
    /\ pc' = "done"
    /\ UNCHANGED <<board, nbr_i, neighbors, start_point, words, result>>
    /\ UNCHANGED solve_vars

NextLib == CallLibNoDiagonalOverlap

SpecLib == InitLib /\ [][NextLib]_vars

\* The two-cell masks of the 2x2 board, as <<block, board>> in either order:
\* rows 0b0011 / 0b1100, columns 0b0101 / 0b1010, diagonals 0b1001 / 0b0110.
RowsOrColumns == {<<3, 12>>, <<12, 3>>, <<5, 10>>, <<10, 5>>}

Diagonals == {<<9, 6>>, <<6, 9>>}

(***************************************************************************)
(* C13: on the 2x2 board the library's no_diagonal_overlap returns true    *)
(* for block and board the two rows or the two columns (either way         *)
(* round), false for the two diagonals, and true whenever block or board   *)
(* is the empty mask.                                                      *)
(***************************************************************************)
C13_LibTwoByTwo ==
    (pc = "done" /\ call.board_width = 2 /\ call.board_height = 2) =>
        /\ <<call.block, call.board>> \in RowsOrColumns => call.out = Ok(TRUE)
        /\ <<call.block, call.board>> \in Diagonals => call.out = Ok(FALSE)
        /\ (call.block = 0 \/ call.board = 0) => call.out = Ok(TRUE)

(***************************************************************************)
(* The accumulator along the recursion.  entered[k] is selected_blocks as  *)
(* the k-th active call of inner_solve received it.                        *)
(***************************************************************************)
RECURSIVE MaskUnion(_)
MaskUnion(ms) ==
    IF ms = <<>> THEN 0
    ELSE BitOr(MaskUnion(SubSeq(ms, 1, Len(ms) - 1)), ms[Len(ms)])

\* Between steps: every active call's board is the union of the blocks it
\* was entered with, and the running call has its entry selection, plus the
\* block it has placed and not yet removed.
AccumulatorBetweenSteps ==
    pc = "inner" =>
        /\ Len(entered) = Len(stack)
        /\ \A k \in DOMAIN stack : stack[k].board = MaskUnion(entered[k])
        /\ Top.at \in {"entry", "loop"} =>
              selected_blocks = entered[Len(stack)]
        /\ Top.at \in {"placed", "called"} =>
              selected_blocks = Append(entered[Len(stack)], Block(Top))

\* A step in which the running call returns None.
ReturnsNoneStep ==
    /\ pc = "inner"
    /\ Len(stack') = Len(stack) - 1
    /\ pc' = "returned" => inds' = None

\* A step in which the running call goes on to its next candidate.
NextCandidateStep ==
    /\ pc = "inner" /\ pc' = "inner"
    /\ Len(stack') = Len(stack)
    /\ stack'[Len(stack)].idx = Top.idx + 1

ReturnRestores ==
    ReturnsNoneStep =>
        /\ selected_blocks' = entered[Len(stack)]
        /\ Len(stack) > 1 =>
              /\ stack'[Len(stack')].board = stack[Len(stack) - 1].board
              /\ stack'[Len(stack')].board = MaskUnion(entered[Len(stack) - 1])

NextCandidateAfterOnePop ==
    NextCandidateStep =>
        /\ selected_blocks' = entered[Len(stack)]
        /\ Top.at \in {"placed", "called"} =>
              /\ Len(selected_blocks) = Len(entered[Len(stack)]) + 1
              /\ selected_blocks' =
                    SubSeq(selected_blocks, 1, Len(selected_blocks) - 1)

(***************************************************************************)
(* C14: when a call of inner_solve returns None, selected_blocks is the    *)
(* sequence the call was entered with and the caller's board mask is what  *)
(* it was; a block pushed on a failed branch is removed by exactly one pop *)
(* before the next candidate is tried.                                     *)
(***************************************************************************)
C14_BacktrackingRestores ==
    /\ []AccumulatorBetweenSteps
    /\ [][ReturnRestores /\ NextCandidateAfterOnePop]_vars

\* A nested call has returned None to a call that is itself nested, after
\* the nested call had placed and removed blocks of its own.
C14_Witness ==
    /\ pc = "inner"
    /\ Len(stack) >= 2
    /\ Top.at = "called"
    /\ selected_blocks = Append(entered[Len(stack)], Block(Top))
    /\ Len(selected_blocks) = 2

(***************************************************************************)
(* C15: at every state of the search the selected candidates stand at      *)
(* strictly increasing positions of the flattened candidate list           *)
(* (picked[k] is the position of selected_blocks[k]): no candidate is      *)
(* selected twice and a set of candidates is only ever selected in one     *)
(* order.                                                                  *)
(***************************************************************************)
C15_SelectionIncreasing ==
    pc \in {"inner", "returned", "done"} =>
        /\ Len(picked) = Len(selected_blocks)
        /\ \A k \in DOMAIN picked :
              /\ picked[k] \in 0..(Len(condensed_words) - 1)
              /\ selected_blocks[k] = condensed_words[picked[k] + 1]
        /\ \A j, k \in DOMAIN picked : j < k => picked[j] < picked[k]
        /\ pc = "inner" =>
              \A k \in DOMAIN stack :
                 \A j \in 1..Len(entered[k]) : picked[j] < stack[k].base

\* Three candidates are selected, and a candidate before the last selected
\* one was passed over although it is disjoint from the first selected one.
C15_Witness ==
    /\ pc = "inner"
    /\ Len(picked) = 3
    /\ \E j \in 0..(Len(condensed_words) - 1) :
          /\ picked[1] < j /\ j < picked[2]
          /\ ~bit_overlaps(condensed_words[j + 1], condensed_words[picked[1] + 1])

====
